---------------------------- MODULE Spec2Model ----------------------------
(***************************************************************************)
(* Model of the s3-uploader watcher (src/src/main.py).                     *)
(*                                                                         *)
(* main() starts ONE watchdog Observer with ONE UploadHandler.  The        *)
(* observer puts "created" notifications on its event queue and a single   *)
(* dispatch thread takes them off, one at a time, and calls                *)
(* UploadHandler.on_created inline.  on_created therefore runs to its end  *)
(* (stabilization wait, upload, retries) before the next notification is   *)
(* looked at.  The model has                                               *)
(*   - mainpc     : the position of main() (startup, watching, joining),   *)
(*   - queue      : the observer's event queue,                            *)
(*   - pc, path   : the position of the dispatch thread inside on_created, *)
(*   - uploading  : UploadHandler.uploading,                               *)
(*   - the locals of _wait_for_file_ready and _upload_to_s3,               *)
(*   - observation variables that record what one pipeline run did.        *)
(*                                                                         *)
(* Paths are sequences of one-character strings, relative to WATCH_DIR.    *)
(* The detector's clock counts half seconds (time.sleep(0.5) is one tick)  *)
(* and advances by the sleeps of the loop.                                 *)
(* Backoff sleeps of the upload loop are recorded in seconds.              *)
(***************************************************************************)
EXTENDS Integers, Sequences, FiniteSets

-----------------------------------------------------------------------------
(* Bounds of the model *)

\* notifications the environment emits in one behaviour
MaxEvents == 2
\* notifications waiting in the observer's queue at one time
MaxQueue == 1
\* largest file size the environment shows (sizes are 0..MaxSize)
MaxSize == 2
\* longest relative path, in characters, given to the key derivation
MaxRelLen == 3

-----------------------------------------------------------------------------
(* Configuration, src/src/main.py:10-15 and the literals of the handler *)

MAX_RETRIES == 3
STABLE_CHECKS == 3
\* _wait_for_file_ready(self, path, timeout=60), in seconds
timeout == 60
\* time.sleep(0.5) after a readable sample, in half seconds
PollSleep == 1
\* time.sleep(1) after PermissionError / OSError, in half seconds
ErrorSleep == 2

HalfSeconds(seconds) == seconds + seconds

EXCLUDED_PREFIXES ==
  { <<"x","x","x","1","2","3","x","x","x">>,
    <<"y","y","y","1","2","3","y","y","y">> }

ALLOWED_EXTENSIONS ==
  { <<".","d","a","t">>, <<".","b","v","r">>, <<".","a","v","i">>,
    <<".","m","o","v">>, <<".","j","p","g">>, <<".","m","p","4">> }

-----------------------------------------------------------------------------
(* String helpers: str.startswith, str.endswith, str.lower, os.path.basename *)

StartsWith(s, prefix) ==
  /\ Len(s) >= Len(prefix)
  /\ SubSeq(s, 1, Len(prefix)) = prefix

EndsWith(s, suffix) ==
  /\ Len(s) >= Len(suffix)
  /\ SubSeq(s, Len(s) - Len(suffix) + 1, Len(s)) = suffix

\* str.lower() on the letters that occur in the modelled paths
LowerChar(c) ==
  CASE c = "M" -> "m"
    [] c = "P" -> "p"
    [] c = "T" -> "t"
    [] c = "X" -> "x"
    [] OTHER -> c

\* Variant: the case is kept.
LowerKeepsCase(s) == s

Lower(s) == [i \in 1..Len(s) |-> LowerChar(s[i])]

IsSeparator(c) == c \in {"\\", "/"}

\* os.path.basename (ntpath): what follows the last separator
Basename(p) ==
  LET seps == {i \in 1..Len(p) : IsSeparator(p[i])}
      last == IF seps = {} THEN 0 ELSE CHOOSE i \in seps : \A j \in seps : j <= i
  IN  SubSeq(p, last + 1, Len(p))

-----------------------------------------------------------------------------
(* The notifications the environment can deliver *)

\* a.mp4
PathClipA    == <<"a",".","m","p","4">>
\* s\Xxx123xxx.MP4: in a subdirectory, upper-case extension, a base name that
\* differs from an excluded prefix only in case
PathClipB    == <<"s","\\","X","x","x","1","2","3","x","x","x",".","M","P","4">>
\* xxx123xxx.mp4
PathExcluded == <<"x","x","x","1","2","3","x","x","x",".","m","p","4">>
\* c.txt
PathText     == <<"c",".","t","x","t">>
\* d.mp4, created as a directory
PathDir      == <<"d",".","m","p","4">>

Paths == {PathClipA, PathClipB, PathExcluded, PathText, PathDir}

Events ==
  { [src_path |-> PathClipA,    is_directory |-> FALSE],
    [src_path |-> PathClipB,    is_directory |-> FALSE],
    [src_path |-> PathExcluded, is_directory |-> FALSE],
    [src_path |-> PathText,     is_directory |-> FALSE],
    [src_path |-> PathDir,      is_directory |-> TRUE] }

NoPath == << >>

-----------------------------------------------------------------------------
(* Python exception classes and the clause that catches a raised exception *)

\* the classes a raised exception is an instance of (built-in hierarchy)
Bases(exc) ==
  CASE exc = "FileNotFoundError" -> {"FileNotFoundError", "OSError", "Exception"}
    [] exc = "PermissionError"   -> {"PermissionError", "OSError", "Exception"}
    [] exc = "TimeoutError"      -> {"TimeoutError", "OSError", "Exception"}
    [] exc = "OSError"           -> {"OSError", "Exception"}
    [] exc = "NoSuchBucket"      -> {"NoSuchBucket", "ClientError", "Exception"}
    [] OTHER                     -> {"Exception"}

\* first clause of a try statement, in textual order, that matches; "" if none
RECURSIVE FirstMatch(_, _)
FirstMatch(clauses, exc) ==
  IF clauses = << >> THEN ""
  ELSE IF Head(clauses) \in Bases(exc) THEN Head(clauses)
  ELSE FirstMatch(Tail(clauses), exc)

\* Variant: the try has no except clause.
WaitClausesNone == << >>

\* except clauses of the try in _wait_for_file_ready
WaitClauses == <<"PermissionError", "OSError">>
\* Variant: no except Exception clause.
HandlerClausesNarrow == <<"FileNotFoundError">>

\* except clauses of the try in on_created
HandlerClauses == <<"FileNotFoundError", "Exception">>
\* Variant: no clause for NoSuchBucket.
UploadClausesGeneric == <<"Exception">>

\* except clauses of the try in the retry loop of _upload_to_s3
UploadClauses == <<"NoSuchBucket", "Exception">>

-----------------------------------------------------------------------------
(* State *)

VARIABLES
  queue,          \* the observer's event queue: notifications not yet dispatched
  emitted,        \* number of notifications the environment has emitted
  uploading,      \* UploadHandler.uploading
  pc,             \* dispatch thread: "idle", "wait", "upload", "attempt"; "dead"
                  \*   once an exception has left on_created
  path,           \* on_created: path of the notification being handled
  last_size,      \* _wait_for_file_ready: last_size
  stable_count,   \* _wait_for_file_ready: stable_count
  elapsed,        \* _wait_for_file_ready: time.time() - start_time, half seconds
  attempt,        \* _upload_to_s3: loop variable of the retry loop
  stab,           \* observation: how the stabilization wait of the run ended
  result,         \* observation: terminal state of the run ("" while it runs)
  log,            \* observation: what the except clauses of on_created logged
  reported,       \* observation: size logged by "File ready (... bytes)"
  lastSample,     \* observation: how the latest sample of the wait ended
  prevSize,       \* observation: size read by the latest sample, -1 if it read none
  consistentRun,  \* observation: consecutive consistent samples up to the latest
  sawPositive,    \* observation: some sample of the wait read a size > 0
  tries,          \* observation: outcome of each s3.upload_file call of the run
  slept,          \* observation: backoff sleeps of the run, in seconds
  runs,           \* observation: pipeline executions started, per path
  finished,       \* observation: pipeline executions ended, per path
  lateEmit,       \* observation: a notification for the path was emitted after
                  \*   the first pipeline execution for it had finished
  lastPause,      \* observation: the sleep after the latest sample, half seconds
  mainpc,         \* main(): "startup", "watching", "joining" or "exited"
  startup,        \* observation: how the startup checks of main() ended
  exitCode,       \* observation: exit status of the process, -1 while it runs
  relA, relB,     \* key derivation: two relative paths (os.path.relpath results)
  keyA, keyB      \* key derivation: the keys built from them

detector == <<last_size, stable_count, elapsed>>
detectorObs == <<reported, lastSample, prevSize, consistentRun, sawPositive,
                 lastPause>>
uploadObs == <<tries, slept>>
vars == <<queue, emitted, uploading, pc, path, last_size, stable_count, elapsed,
          attempt, stab, result, log, reported, lastSample, prevSize,
          consistentRun, sawPositive, tries, slept, runs, finished, lateEmit,
          lastPause, mainpc, startup, exitCode, relA, relB, keyA, keyB>>
mainVars == <<mainpc, startup, exitCode>>
keyVars == <<relA, relB, keyA, keyB>>
handlerVars == <<queue, emitted, uploading, pc, path, detector, attempt, stab,
                 result, log, detectorObs, uploadObs, runs, finished, lateEmit>>

NoKey == << >>

\* The handler before any notification: UploadHandler.__init__ and the
\* observations at their starting values
HandlerInit ==

  /\ queue = << >>
  /\ emitted = 0
  /\ uploading = {}
  /\ pc = "idle"
  /\ path = NoPath
  /\ last_size = -1
  /\ stable_count = 0
  /\ elapsed = 0
  /\ attempt = 0
  /\ stab = ""
  /\ result = ""
  /\ log = ""
  /\ reported = -1
  /\ lastSample = ""
  /\ prevSize = -1
  /\ consistentRun = 0
  /\ sawPositive = FALSE
  /\ tries = << >>
  /\ slept = << >>
  /\ runs = [p \in Paths |-> 0]
  /\ finished = [p \in Paths |-> 0]
  /\ lateEmit = [p \in Paths |-> FALSE]
  /\ lastPause = 0

\* The process at the start of main()
Init ==
  /\ HandlerInit
  /\ mainpc = "startup"
  /\ startup = ""
  /\ exitCode = -1
  /\ relA = NoPath /\ relB = NoPath
  /\ keyA = NoKey /\ keyB = NoKey

-----------------------------------------------------------------------------
(* main, lines 158-194 *)

\* what the checks of lines 160-174 can find
\*   NoWatchDir   : os.path.exists(WATCH_DIR) is False
\*   NoSuchBucket : s3.head_bucket raises NoSuchBucket
\*   S3Error      : s3.head_bucket raises anything else
StartupOutcomes == {"ok", "NoWatchDir", "NoSuchBucket", "S3Error"}

\* status with which the interpreter ends when main() returns
ExitStatusOfReturn == 0

\* lines 160-184: the checks, then observer.start(); a failed check prints
\* an error and returns from main().
Startup(outcome) ==
  /\ mainpc = "startup"
  /\ startup' = outcome
  /\ IF outcome = "ok"
     THEN mainpc' = "watching" /\ UNCHANGED exitCode
     ELSE mainpc' = "exited" /\ exitCode' = ExitStatusOfReturn
  /\ UNCHANGED <<handlerVars, keyVars>>

\* lines 189-191: KeyboardInterrupt in the sleep loop, observer.stop()
Interrupt ==
  /\ mainpc = "watching"
  /\ mainpc' = "joining"
  /\ UNCHANGED <<startup, exitCode, handlerVars, keyVars>>

\* lines 193-194: observer.join() returns once the dispatch thread has left
\* on_created; main() returns.
JoinAndExit ==
  /\ mainpc = "joining"
  /\ pc \in {"idle", "dead"}
  /\ mainpc' = "exited"
  /\ exitCode' = ExitStatusOfReturn
  /\ UNCHANGED <<startup, handlerVars, keyVars>>

\* the observer's threads run from observer.start() to observer.stop()
ObserverRunning == mainpc = "watching"

-----------------------------------------------------------------------------
(* The environment: the observer's emitter puts a notification on the queue *)

Emit(e) ==
  /\ ObserverRunning
  /\ emitted < MaxEvents
  /\ Len(queue) < MaxQueue
  /\ queue' = Append(queue, e)
  /\ emitted' = emitted + 1
  /\ lateEmit' = [lateEmit EXCEPT ![e.src_path] =
                    @ \/ (runs[e.src_path] > 0 /\ e.src_path \notin uploading)]
  /\ UNCHANGED <<uploading, pc, path, detector, attempt, stab, result, log,
                 detectorObs, uploadObs, runs, finished, mainVars, keyVars>>

-----------------------------------------------------------------------------
(* on_created, lines 31-51: the filters and the admission *)

Excluded(filename) == \E prefix \in EXCLUDED_PREFIXES : StartsWith(filename, prefix)

AllowedExtension(p) == \E ext \in ALLOWED_EXTENSIONS : EndsWith(Lower(p), ext)

\* TRUE when on_created reaches self.uploading.add(path)
Admits(event, inflight) ==
  /\ ~event.is_directory
  /\ ~Excluded(Basename(event.src_path))
  /\ AllowedExtension(event.src_path)
  /\ event.src_path \notin inflight

\* Variant: the path is not recorded as in flight.
AddInFlightForgets(inflight, p) == inflight

\* self.uploading.add(path)
AddInFlight(inflight, p) == inflight \cup {p}

\* Variant: the path stays recorded as in flight.
DiscardInFlightForgets(inflight, p) == inflight

\* finally: self.uploading.discard(path)
DiscardInFlight(inflight, p) == inflight \ {p}

\* The except clauses of on_created: what is logged for an exception that
\* leaves _wait_for_file_ready or _upload_to_s3
HandlerLog(exc) ==
  LET clause == FirstMatch(HandlerClauses, exc)
  IN  IF clause = "FileNotFoundError" THEN "File disappeared"
      ELSE IF clause = "Exception" THEN "Unexpected error"
      ELSE ""

\* Terminal state of a run that ends with exception exc reaching on_created
TerminalOf(exc) ==
  IF exc = "TimeoutError" THEN "StabilizationTimeout"
  ELSE IF HandlerLog(exc) = "File disappeared" THEN "Vanished"
  ELSE "UnexpectedError"

\* The dispatch thread takes the next notification and runs on_created up to
\* the call of _wait_for_file_ready, or to one of its early returns.
Dispatch ==
  /\ ObserverRunning
  /\ pc = "idle"
  /\ queue # << >>
  /\ LET event == Head(queue) IN
       /\ queue' = Tail(queue)
       /\ IF Admits(event, uploading)
          THEN /\ uploading' = AddInFlight(uploading, event.src_path)
               /\ path' = event.src_path
               /\ pc' = "wait"
               /\ last_size' = -1
               /\ stable_count' = 0
               /\ elapsed' = 0
               /\ attempt' = 0
               /\ stab' = "Stabilizing"
               /\ result' = ""
               /\ log' = ""
               /\ reported' = -1
               /\ lastSample' = ""
               /\ prevSize' = -1
               /\ consistentRun' = 0
               /\ sawPositive' = FALSE
               /\ lastPause' = 0
               /\ tries' = << >>
               /\ slept' = << >>
               /\ runs' = [runs EXCEPT ![event.src_path] = @ + 1]
          ELSE UNCHANGED <<uploading, pc, path, detector, attempt, stab, result,
                           log, detectorObs, uploadObs, runs>>
  /\ UNCHANGED <<emitted, finished, lateEmit, mainVars, keyVars>>

\* Variant: the exception is logged and on_created carries on with the upload.
RaiseThenUpload(exc) ==
  /\ log' = "Unexpected error"
  /\ pc' = "upload"
  /\ UNCHANGED <<uploading, result, finished>>

\* An exception reaches the except/finally of on_created: log, discard, return.
\* One that no clause catches leaves on_created after the finally and ends
\* the dispatch thread ("dead").
Raise(exc) ==
  /\ log' = HandlerLog(exc)
  /\ result' = TerminalOf(exc)
  /\ uploading' = DiscardInFlight(uploading, path)
  /\ finished' = [finished EXCEPT ![path] = @ + 1]
  /\ pc' = IF FirstMatch(HandlerClauses, exc) = "" THEN "dead" ELSE "idle"

-----------------------------------------------------------------------------
(* _wait_for_file_ready, lines 63-109 *)

\* What one pass of the try block (lines 76-96) can meet: the exception it
\* raises ("" for none) and, when it raises none, the size os.path.getsize read.
\*   FileNotFoundError : os.path.exists(path) is False (line 79)
\*   PermissionError   : open(path, 'rb') finds the file locked
\*   OSError           : any other OS-level error of getsize / open / read
Samples ==
  { [exc |-> x, size |-> -1] : x \in {"FileNotFoundError", "PermissionError", "OSError"} }
    \cup { [exc |-> "", size |-> n] : n \in 0..MaxSize }

\* Variant: the timeout is compared in the wrong unit.
TimedOutWrongUnit(e) == e > HalfSeconds(HalfSeconds(timeout))

\* line 73: time.time() - start_time > timeout
TimedOut(e) == e > HalfSeconds(timeout)

\* Variant: start_time is taken anew on every pass of the loop.
ClockRestarts(e, pause) == 0

\* time.time() - start_time after a sleep of the loop (lines 69, 96, 102, 107)
ClockAfter(e, pause) == e + pause

\* Variant: the size is not required to be positive.
SizeStableAllowsZero(size, last) == size = last

\* line 90: size == last_size and size > 0
SizeStable(size, last) == size = last /\ size > 0

\* lines 90-93
CountAfterRead(size, last, count) ==
  IF SizeStable(size, last) THEN count + 1 ELSE 0

\* last_size after the except clause that caught the exception (lines 98-107)
LastSizeAfterError(clause, last) ==
  IF clause = "PermissionError" THEN -1 ELSE last

\* line 71 is true and line 73 is true: raise TimeoutError, which no clause of
\* _wait_for_file_ready encloses; on_created logs it and discards the path.
WaitTimeout ==
  /\ pc = "wait"
  /\ stable_count < STABLE_CHECKS
  /\ TimedOut(elapsed)
  /\ stab' = "StabilizationTimeout"
  /\ Raise("TimeoutError")
  /\ last_size' = -1
  /\ stable_count' = 0
  /\ elapsed' = 0
  /\ UNCHANGED <<queue, emitted, path, attempt, detectorObs, uploadObs, runs,
                 lateEmit, mainVars, keyVars>>

\* One pass of the loop body (lines 71-107): a sample and the sleep after it.
WaitSample(obs) ==
  /\ pc = "wait"
  /\ stable_count < STABLE_CHECKS
  /\ ~TimedOut(elapsed)
  /\ lastSample' = IF obs.exc = "" THEN "ok" ELSE obs.exc
  /\ prevSize' = obs.size
  /\ consistentRun' = IF obs.exc = "" /\ obs.size = prevSize /\ obs.size > 0
                      THEN consistentRun + 1 ELSE 0
  /\ sawPositive' = (sawPositive \/ obs.size > 0)
  /\ LET clause == IF obs.exc = "" THEN "" ELSE FirstMatch(WaitClauses, obs.exc) IN
       IF obs.exc = ""
       THEN /\ stable_count' = CountAfterRead(obs.size, last_size, stable_count)
            /\ last_size' = obs.size
            /\ elapsed' = ClockAfter(elapsed, PollSleep)
            /\ lastPause' = PollSleep
            /\ UNCHANGED <<uploading, pc, stab, result, log, finished>>
       ELSE IF clause # ""
       THEN /\ stable_count' = 0
            /\ last_size' = LastSizeAfterError(clause, last_size)
            /\ elapsed' = ClockAfter(elapsed, ErrorSleep)
            /\ lastPause' = ErrorSleep
            /\ UNCHANGED <<uploading, pc, stab, result, log, finished>>
       ELSE /\ stab' = TerminalOf(obs.exc)
            /\ Raise(obs.exc)
            /\ last_size' = -1
            /\ stable_count' = 0
            /\ elapsed' = 0
            /\ lastPause' = 0
  /\ UNCHANGED <<queue, emitted, path, attempt, reported, uploadObs, runs, lateEmit,
                 mainVars, keyVars>>

\* line 71 is false: the loop ends, line 109 logs the size, the call returns
\* and on_created goes on to _upload_to_s3.
WaitReady ==
  /\ pc = "wait"
  /\ stable_count >= STABLE_CHECKS
  /\ reported' = last_size
  /\ stab' = "StableReady"
  /\ pc' = "upload"
  /\ last_size' = -1
  /\ stable_count' = 0
  /\ elapsed' = 0
  /\ UNCHANGED <<queue, emitted, uploading, path, attempt, result, log,
                 lastSample, prevSize, consistentRun, sawPositive, lastPause,
                 uploadObs, runs, finished, lateEmit, mainVars, keyVars>>

-----------------------------------------------------------------------------
(* _upload_to_s3, lines 111-150 *)

\* what os.path.getsize(path) of line 118 can raise ("" for nothing)
StatOutcomes == {"", "FileNotFoundError", "OSError"}

\* what s3.upload_file can raise ("" for nothing)
UploadOutcomes == {"", "NoSuchBucket", "EndpointConnectionError"}

RECURSIVE Pow2(_)
Pow2(n) == IF n = 0 THEN 1 ELSE 2 * Pow2(n - 1)

\* Variant: the exponent counts attempts from zero.
BackoffFromZero(a) == Pow2(a - 1)

\* line 146: wait_time = 2 ** attempt
Backoff(a) == Pow2(a)

\* line 145: attempt < MAX_RETRIES
AttemptsRemain(a) == a < MAX_RETRIES

\* Variant: range(MAX_RETRIES + 1)
RetryRangeFromZero == 0..MAX_RETRIES

\* line 122: range(1, MAX_RETRIES + 1)
RetryRange == 1..MAX_RETRIES

\* first value of the loop variable
FirstAttempt == CHOOSE a \in RetryRange : \A b \in RetryRange : a <= b

\* on_created returns normally: finally discards the path
Return ==
  /\ uploading' = DiscardInFlight(uploading, path)
  /\ finished' = [finished EXCEPT ![path] = @ + 1]
  /\ pc' = "idle"
  /\ UNCHANGED log

\* lines 113-119: the key and the size for the log line, before the loop
UploadStart(exc) ==
  /\ pc = "upload"
  /\ IF exc = ""
     THEN /\ pc' = "attempt"
          /\ attempt' = FirstAttempt
          /\ UNCHANGED <<uploading, result, log, finished>>
     ELSE /\ Raise(exc)
          /\ UNCHANGED attempt
  /\ UNCHANGED <<queue, emitted, path, detector, stab, detectorObs, uploadObs,
                 runs, lateEmit, mainVars, keyVars>>

\* One pass of the retry loop (lines 122-150): the transfer, and what follows it.
UploadAttempt(exc) ==
  /\ pc = "attempt"
  /\ tries' = Append(tries, IF exc = "" THEN "success" ELSE exc)
  /\ LET clause == IF exc = "" THEN "" ELSE FirstMatch(UploadClauses, exc) IN
       IF exc = ""
       THEN /\ result' = "Uploaded"
            /\ Return
            /\ UNCHANGED <<attempt, slept>>
       ELSE IF clause = "NoSuchBucket"
       THEN /\ result' = "NonRetryableFailure"
            /\ Return
            /\ UNCHANGED <<attempt, slept>>
       ELSE /\ slept' = IF AttemptsRemain(attempt)
                         THEN Append(slept, Backoff(attempt)) ELSE slept
            /\ IF attempt + 1 \in RetryRange
               THEN /\ attempt' = attempt + 1
                    /\ UNCHANGED <<uploading, pc, result, log, finished>>
               ELSE /\ result' = "ExhaustedRetries"
                    /\ Return
                    /\ UNCHANGED attempt
  /\ UNCHANGED <<queue, emitted, path, detector, stab, detectorObs, runs, lateEmit,
                 mainVars, keyVars>>

-----------------------------------------------------------------------------
(* The system *)

Next ==
  \/ \E outcome \in StartupOutcomes : Startup(outcome)
  \/ Interrupt
  \/ JoinAndExit
  \/ \E e \in Events : Emit(e)
  \/ Dispatch
  \/ WaitTimeout
  \/ \E obs \in Samples : WaitSample(obs)
  \/ WaitReady
  \/ \E exc \in StatOutcomes : UploadStart(exc)
  \/ \E exc \in UploadOutcomes : UploadAttempt(exc)

Spec == Init /\ [][Next]_vars

-----------------------------------------------------------------------------
(* Key derivation, _upload_to_s3 lines 113-115, on its own *)

PREFIX == <<"c","a","m","e","r","a","/">>

\* str.replace("\\", "/")
ReplaceBackslash(s) == [i \in 1..Len(s) |-> IF s[i] = "\\" THEN "/" ELSE s[i]]

\* line 115: key = PREFIX + rel_path.replace("\\", "/")
DeriveKey(rel) == PREFIX \o ReplaceBackslash(rel)

RelChars == {"a", "\\", "/"}

\* Results of os.path.relpath(path, WATCH_DIR) where "/" separates the
\* components and a backslash is a character of a name: no empty component.
RelPaths ==
  { s \in UNION { [1..n -> RelChars] : n \in 1..MaxRelLen } :
      /\ s[1] # "/"
      /\ s[Len(s)] # "/"
      /\ \A i \in 1..(Len(s) - 1) : ~(s[i] = "/" /\ s[i + 1] = "/") }

KeyInit ==
  /\ HandlerInit
  /\ mainpc = "startup"
  /\ startup = ""
  /\ exitCode = -1
  /\ relA \in RelPaths
  /\ relB \in RelPaths
  /\ keyA = NoKey /\ keyB = NoKey

\* _upload_to_s3 builds the key of each of the two files
DeriveKeys ==
  /\ keyA = NoKey
  /\ keyA' = DeriveKey(relA)
  /\ keyB' = DeriveKey(relB)
  /\ UNCHANGED <<relA, relB, handlerVars, mainVars>>

KeyNext == DeriveKeys

KeySpec == KeyInit /\ [][KeyNext]_vars

-----------------------------------------------------------------------------
(* Properties *)

Active == pc # "idle"

Transient(outcome) == outcome \notin {"success", "NoSuchBucket"}

\* C1: an upload is attempted only in a run whose stabilization wait ended in
\* StableReady; a run whose wait ended in Vanished or StabilizationTimeout
\* makes no upload attempt.
C1_UploadOnlyAfterStable ==
  /\ (pc \in {"upload", "attempt"} \/ tries # << >>) => stab = "StableReady"
  /\ stab \in {"Vanished", "StabilizationTimeout"} => tries = << >> /\ pc = "idle"

C1_Witness ==
  /\ stab = "StableReady"
  /\ tries = <<"success">>
  /\ result = "Uploaded"

\* C2: the wait succeeds exactly at the sample that is the N-th consecutive
\* consistent read (exists, readable, size equal to the size of the sample
\* just before it and > 0), not earlier and not later, and the size it
\* reports is that repeated size.
C2_StableAtNthConsistentRead ==
  /\ stab = "StableReady" => consistentRun = STABLE_CHECKS /\ reported = prevSize
  /\ stable_count >= STABLE_CHECKS => consistentRun = STABLE_CHECKS
  /\ (pc = "wait" /\ consistentRun >= STABLE_CHECKS) => stable_count >= STABLE_CHECKS

\* C3: a sample that finds the path gone ends the wait at that sample with the
\* Vanished outcome, reported by on_created as "File disappeared".
C3_VanishedEndsWait ==
  lastSample = "FileNotFoundError" =>
    /\ pc = "idle"
    /\ stab = "Vanished"
    /\ result = "Vanished"
    /\ log = "File disappeared"

\* C4: once the elapsed time exceeds the timeout with fewer than N consecutive
\* consistent reads, the next step of the wait raises TimeoutError: the wait
\* ends in StabilizationTimeout, and such a wait reports no stable size and
\* starts no upload.
C4_TimeoutEndsWait ==
  /\ [](stab = "StabilizationTimeout" =>
          /\ reported = -1
          /\ tries = << >>
          /\ result = "StabilizationTimeout"
          /\ pc = "idle")
  /\ [][(/\ pc = "wait"
         /\ stable_count < STABLE_CHECKS
         /\ elapsed > 2 * timeout
         /\ <<pc, stab, detector, lastSample>>' # <<pc, stab, detector, lastSample>>)
        => (stab' = "StabilizationTimeout" /\ pc' = "idle")]_vars

C4_Witness ==
  /\ stab = "StabilizationTimeout"
  /\ consistentRun = STABLE_CHECKS - 1
  /\ log = "Unexpected error"

\* C5: while no sample of the wait has read a size greater than zero, the
\* consecutive counter is zero and the wait has not succeeded.
C5_ZeroSizeNeverStable ==
  ~sawPositive =>
    /\ stable_count = 0
    /\ stab # "StableReady"
    /\ reported = -1
    /\ tries = << >>

C5_Witness ==
  /\ ~sawPositive
  /\ lastSample = "ok"
  /\ prevSize = 0
  /\ stab = "StabilizationTimeout"

\* C6: one call of _upload_to_s3 makes at most MAX_RETRIES transfer attempts,
\* exactly MAX_RETRIES when all of them fail transiently (outcome
\* ExhaustedRetries), and none after one that succeeded.
C6_AttemptBudget ==
  /\ Len(tries) <= MAX_RETRIES
  /\ result = "ExhaustedRetries" <=>
       /\ ~Active
       /\ Len(tries) = MAX_RETRIES
       /\ \A k \in 1..Len(tries) : Transient(tries[k])
  /\ (~Active /\ tries # << >> /\ \A k \in 1..Len(tries) : Transient(tries[k]))
       => Len(tries) = MAX_RETRIES
  /\ \A k \in 1..Len(tries) :
       tries[k] = "success" => k = Len(tries) /\ ~Active /\ result = "Uploaded"

C6_Witness ==
  /\ result = "ExhaustedRetries"
  /\ Len(tries) = 3

\* C7: the sleep after the k-th failed attempt is 2^k seconds (2 s, then 4 s),
\* one sleep per transient failure that another attempt follows, and none
\* after the last attempt of the call.
C7_BackoffSchedule ==
  /\ \A k \in 1..Len(slept) : slept[k] = 2^k
  /\ pc = "attempt" => Len(slept) = Len(tries)
  /\ (~Active /\ tries # << >>) => Len(slept) = Len(tries) - 1

C7_Witness ==
  /\ slept = <<2, 4>>
  /\ Len(tries) = 3
  /\ result = "Uploaded"

\* C8: an attempt that fails with NoSuchBucket is the last attempt of the
\* call, whatever its number: no sleep and no attempt follow it, the failure is
\* the outcome, no exception reaches on_created and the dispatch thread is back
\* at its loop.
C8_NoSuchBucketStops ==
  \A k \in 1..Len(tries) :
    tries[k] = "NoSuchBucket" =>
      /\ k = Len(tries)
      /\ Len(slept) = k - 1
      /\ result = "NonRetryableFailure"
      /\ log = ""
      /\ pc = "idle"

C8_Witness ==
  /\ Len(tries) = 2
  /\ tries[2] = "NoSuchBucket"
  /\ result = "NonRetryableFailure"

\* C9: when every notification for a path was emitted before the first
\* pipeline execution for that path had finished, the path gets exactly one
\* pipeline execution.
C9_OneRunPerBurst ==
  \A p \in Paths : ~lateEmit[p] => runs[p] <= 1

\* C10: a path has at most one active pipeline execution, and it is in
\* self.uploading exactly while it has one.
C10_InFlightWhileActive ==
  /\ \A p \in Paths :
       /\ runs[p] - finished[p] \in {0, 1}
       /\ p \in uploading <=> runs[p] - finished[p] = 1
  /\ Active => path \in uploading
  /\ uploading \subseteq (IF Active THEN {path} ELSE {})

C10_Witness ==
  /\ pc = "attempt"
  /\ path \in uploading
  /\ queue # << >>
  /\ Head(queue).src_path = path

\* C11: whenever a pipeline execution ends, by whatever outcome, its path is
\* removed from self.uploading, the other members stay, and a notification
\* for that path would be admitted again.
C11_RemovedOnEveryExit ==
  [][finished' # finished =>
       /\ result' # ""
       /\ path \notin uploading'
       /\ uploading' = uploading \ {path}
       /\ Admits([src_path |-> path, is_directory |-> FALSE], uploading')]_vars

C11_Witness ==
  /\ runs[PathClipA] = 2
  /\ finished[PathClipA] = 1
  /\ lateEmit[PathClipA]
  /\ pc = "wait"

\* C12: while the pipeline of one file is in a poll sleep or a backoff sleep,
\* a waiting notification for another admissible file can be taken and
\* admitted.
C12_OtherFileAdmittedDuringSleep ==
  (/\ ObserverRunning
   /\ pc \in {"wait", "attempt"}
   /\ queue # << >>
   /\ Head(queue).src_path # path
   /\ Admits(Head(queue), uploading))
  => ENABLED Dispatch

FailureOutcomes ==
  {"Vanished", "StabilizationTimeout", "NonRetryableFailure", "ExhaustedRetries",
   "UnexpectedError"}

\* C13: no per-file outcome leaves on_created: the dispatch thread never dies,
\* after a failed run it is back at its loop with the path discarded, and a
\* waiting notification is then taken.
C13_ErrorsContained ==
  /\ pc # "dead"
  /\ result \in FailureOutcomes =>
       /\ pc = "idle"
       /\ path \notin uploading
       /\ (ObserverRunning /\ queue # << >>) => ENABLED Dispatch
  /\ result \in {"StabilizationTimeout", "UnexpectedError"} => log = "Unexpected error"
  /\ result = "Vanished" => log = "File disappeared"
  /\ result \in {"NonRetryableFailure", "ExhaustedRetries"} => log = ""

C13_Witness ==
  /\ result = "ExhaustedRetries"
  /\ ObserverRunning
  /\ queue # << >>
  /\ Head(queue).src_path # path
  /\ Admits(Head(queue), uploading)

\* C14: two distinct relative paths under the same root and prefix get
\* different keys.
C14_KeysInjective ==
  (keyA # NoKey /\ relA # relB) => keyA # keyB

\* The notifications of the model that pass the three filters of the claim:
\* a file event, base name without excluded prefix, allowed extension in any case
PassesFilters(e) == ~e.is_directory /\ e.src_path \in {PathClipA, PathClipB}

\* C15: the dispatch thread starts a pipeline for the notification it takes
\* exactly when the notification passes the filters; one that fails a filter
\* leaves self.uploading unchanged and starts no stabilization and no upload.
C15_FiltersGateThePipeline ==
  /\ [](\A p \in Paths \ {PathClipA, PathClipB} : runs[p] = 0)
  /\ [][Len(queue') < Len(queue) =>
         IF PassesFilters(Head(queue))
         THEN /\ pc' = "wait"
              /\ path' = Head(queue).src_path
              /\ uploading' = uploading \cup {Head(queue).src_path}
              /\ runs' # runs
         ELSE UNCHANGED <<uploading, pc, path, runs, stab, result, tries,
                          detector>>]_vars

C15_Witness ==
  /\ pc = "wait"
  /\ path = PathClipB
  /\ emitted = 2
  /\ runs[PathClipA] = 0

StartupFailures == StartupOutcomes \ {"ok"}

\* C16: main exits with status 0 after an interrupt and with a non-zero
\* status after a startup failure (watch root missing, head_bucket failing);
\* after a startup failure the observer was never started and no
\* notification was processed.
C16_ExitStatus ==
  mainpc = "exited" =>
    IF startup \in StartupFailures
    THEN exitCode # 0 /\ emitted = 0 /\ \A p \in Paths : runs[p] = 0
    ELSE exitCode = 0

-----------------------------------------------------------------------------
(* Progress of a pipeline run *)

\* A step of on_created after admission: the dispatch thread is scheduled,
\* time.sleep returns and every call to the file system or to S3 returns.
HandlerStep ==
  \/ WaitTimeout
  \/ \E obs \in Samples : WaitSample(obs)
  \/ WaitReady
  \/ \E exc \in StatOutcomes : UploadStart(exc)
  \/ \E exc \in UploadOutcomes : UploadAttempt(exc)

LiveSpec == Init /\ [][Next]_vars /\ WF_vars(HandlerStep)

TerminalStates ==
  {"Uploaded", "Vanished", "StabilizationTimeout", "NonRetryableFailure",
   "ExhaustedRetries"}

\* C17 as stated: every admitted run comes to rest, and the state it comes to
\* rest in is one of the five terminal states of the specification.
C17_EndsInFiveStates ==
  /\ Active ~> ~Active
  /\ [][(Active /\ ~Active') => result' \in TerminalStates]_vars

\* C17, amended: every admitted run comes to rest, neither waiting nor
\* retrying forever, in exactly one of Uploaded, Vanished,
\* StabilizationTimeout, NonRetryableFailure, ExhaustedRetries or
\* UnexpectedError, and has no result before it rests.
C17_RunsTerminate ==
  /\ Active ~> (~Active /\ result \in TerminalStates \cup {"UnexpectedError"})
  /\ [](Active => result = "")
  /\ []((~Active /\ path # NoPath) =>
          result \in TerminalStates \cup {"UnexpectedError"})

C17_Witness ==
  /\ ~Active
  /\ result = "StabilizationTimeout"
  /\ ~sawPositive
  /\ lastSample = "ok"

\* C18: after a sample that ended in a PermissionError or in another
\* OS-level read error, the stability record is back at its initial values:
\* stable_count is 0 and last_size is -1.
C18_RecordResetOnError ==
  (pc = "wait" /\ lastSample \in {"PermissionError", "OSError"}) =>
    (stable_count = 0 /\ last_size = -1)

\* C19: a sample that ends in a PermissionError sets stable_count to 0 and is
\* followed by a sleep of 1 second, where a readable sample is followed by
\* one of 0.5 seconds; it leaves the wait going, a wait that has then read
\* STABLE_CHECKS consecutive consistent samples ends with success, and a wait
\* whose last sample was locked can only have ended with StabilizationTimeout.
C19_LockErrorBacksOff ==
  /\ [][(pc = "wait" /\ elapsed' > elapsed) =>
          /\ lastSample' = "PermissionError" =>
               /\ stable_count' = 0
               /\ elapsed' = elapsed + HalfSeconds(1)
               /\ UNCHANGED <<pc, stab, result, log, uploading>>
          /\ lastSample' = "ok" =>
               /\ elapsed' + elapsed' = elapsed + elapsed + HalfSeconds(1)]_vars
  /\ [](lastSample = "PermissionError" =>
          \/ /\ pc = "wait"
             /\ stab = "Stabilizing"
             /\ result = ""
             /\ stable_count = 0
             /\ lastPause = HalfSeconds(1)
          \/ /\ pc = "idle"
             /\ result = "StabilizationTimeout")
  /\ []((pc = "wait" /\ consistentRun >= STABLE_CHECKS) =>
          /\ stable_count >= STABLE_CHECKS
          /\ ENABLED WaitReady
          /\ ~ENABLED WaitTimeout)

C19_Witness ==
  /\ lastSample = "PermissionError"
  /\ result = "StabilizationTimeout"
  /\ pc = "idle"

\* C20: once the interrupt has been taken in main, no notification is
\* admitted, a run that is in an upload attempt makes no further attempt, and
\* no backoff sleep of the retry loop is started.
C20_QuietAfterShutdown ==
  [][(mainpc = "joining" \/ mainpc = "exited") =>
       (/\ runs' = runs
        /\ uploading' \subseteq uploading
        /\ attempt >= FirstAttempt => attempt' = attempt
        /\ slept' = slept)]_vars

=============================================================================
